---- MODULE Spec2Model ----
(***************************************************************************)
(* Quiz generation and lifecycle management of the adaptive-learning       *)
(* backend: the quiz store (create, update, soft delete, batch soft        *)
(* delete), the generation orchestrator (single module and all modules),   *)
(* the validation of generated question sets and the scoring of attempts.  *)
(*                                                                         *)
(* A quiz id is the position of its document in the quizzes collection;    *)
(* documents are appended by insert_one and never removed, so positions    *)
(* also give the created_at order.  The text of questions and options is   *)
(* abstracted: a question is the number of its options and its             *)
(* correct_answer index.                                                   *)
(***************************************************************************)
EXTENDS Integers, Sequences, FiniteSets, TLC

\* Bounds of the model: the number of documents of the store (those of the
\* quizzes collection, and those of the quizzes and the quiz_attempts
\* collections together), and the number of questions of a quiz given to
\* the percentage computation.
MaxQuizzes == 2
MaxQuestions == 50
MaxTextLen == 3

\* Field constraints of the schemas.
MinOptions == 2
MaxOptions == 6
MaxTitleLength == 255
MinQuestions == 1

\* A title is modelled by its length; NoTitle is an absent "title" key.
NoTitle == -1
TitleLengths == {10, MaxTitleLength + 1}

\* course_id values of requests; only "c1" is a document of db.courses.
CourseIds == {"c1", "c2"}

\* The modules of course "c1", in course order.  One module has an empty
\* code; the last one has no extractable content (_get_module_assets_content
\* returned "").
CourseModules ==
    << [code |-> "m1", assets_content |-> "text"],
       [code |-> "",   assets_content |-> "text"],
       [code |-> "m2", assets_content |-> ""] >>

\* A second document of db.courses, "c3", whose two modules carry the same
\* code: a course document is stored as it is sent, and nothing on the way
\* to get_course_modules_info compares the codes of its modules.
TwinCourseId == "c3"
TwinModules ==
    << [code |-> "m1", assets_content |-> "text"],
       [code |-> "m1", assets_content |-> "text"] >>

\* module_code values of requests.  "" stands for an omitted (None) or empty
\* module_code, which the code treats alike (both are falsy); "mX" is a code
\* no module of the course carries.
RequestModuleCodes == {"", "m1", "m2", "mX"}

\* course_id and module_code values of manually created quizzes.
QuizCourseIds == {"c1"}
QuizModuleCodes == {"m1", "m2"}

\* Question lists as a client or the generation capability may send them.
\* InRange is a valid question; OutOfRange has a correct_answer beyond its
\* options; the last three break a field constraint (too few options, too
\* many options, a negative correct_answer).
InRange == [options |-> 3, correct_answer |-> 2]
OutOfRange == [options |-> 2, correct_answer |-> 2]

QuestionLists ==
    { << >>,
      << InRange >>,
      << InRange, InRange >>,
      << OutOfRange >>,
      << InRange, OutOfRange >>,
      << [options |-> 1, correct_answer |-> 0] >>,
      << [options |-> 7, correct_answer |-> 0] >>,
      << [options |-> 2, correct_answer |-> -1] >> }

\* db.courses.find_one: the course document, or <<>> wrapped as not found.
find_course(course_id) ==
    IF course_id = "c1"
    THEN [found |-> TRUE, modules |-> CourseModules]
    ELSE IF course_id = TwinCourseId
    THEN [found |-> TRUE, modules |-> TwinModules]
    ELSE [found |-> FALSE, modules |-> <<>>]

-----------------------------------------------------------------------------
(* Validation                                                              *)

\* schemas.quiz.QuizQuestion: options min_items=2, max_items=6,
\* correct_answer ge=0 and the validate_correct_answer validator.
validate_correct_answer_no_upper(q) ==
    /\ q.options >= MinOptions
    /\ q.options <= MaxOptions
    /\ q.correct_answer >= 0

validate_correct_answer(q) ==
    /\ q.options >= MinOptions
    /\ q.options <= MaxOptions
    /\ q.correct_answer >= 0
    /\ ~(q.correct_answer >= q.options)

\* llm_service.QuizQuestion: no range check of correct_answer against options.
llm_QuizQuestion(q) ==
    /\ q.options >= MinOptions
    /\ q.options <= MaxOptions
    /\ q.correct_answer >= 0

\* llm_service.QuizMCQ: title required, questions min_items=1.
QuizMCQ(parsed) ==
    /\ parsed.title_len # NoTitle
    /\ Len(parsed.questions) >= MinQuestions
    /\ \A i \in 1..Len(parsed.questions) : llm_QuizQuestion(parsed.questions[i])

\* schemas.quiz.QuizBase / QuizCreate: title max_length=255, questions
\* min_items=1, every question a valid QuizQuestion.
QuizCreate(title_len, questions) ==
    /\ title_len # NoTitle
    /\ title_len <= MaxTitleLength
    /\ Len(questions) >= MinQuestions
    /\ \A i \in 1..Len(questions) : validate_correct_answer(questions[i])

\* schemas.quiz.QuizUpdate: questions is optional; when given, min_items=1
\* and every question a valid QuizQuestion.
QuizUpdate(patch) ==
    patch.has_questions =>
        /\ Len(patch.questions) >= MinQuestions
        /\ \A i \in 1..Len(patch.questions) :
               validate_correct_answer(patch.questions[i])

-----------------------------------------------------------------------------
(* Generation capability                                                   *)

\* What the provider call yields: an exception (provider error or timeout),
\* empty text, text that is not JSON, or a JSON object.
LLMOutputs ==
    { [kind |-> "provider_error", title_len |-> NoTitle, questions |-> <<>>],
      [kind |-> "empty",          title_len |-> NoTitle, questions |-> <<>>],
      [kind |-> "not_json",       title_len |-> NoTitle, questions |-> <<>>] }
    \cup { [kind |-> "json", title_len |-> 10, questions |-> qs] :
             qs \in QuestionLists }
    \cup { [kind |-> "json", title_len |-> t,
            questions |-> << InRange >>] :
             t \in {NoTitle, MaxTitleLength + 1} }

\* LLMService._parse_response for ResultType.QUIZ_MCQ: the validated quiz
\* dict, or an error dict (which has no "questions" key) that holds the
\* text received as raw_content.
parse_response(out) ==
    IF out.kind = "json" /\ QuizMCQ(out)
    THEN [error |-> FALSE, title_len |-> out.title_len, questions |-> out.questions]
    ELSE [error |-> TRUE, title_len |-> NoTitle, questions |-> <<>>,
          raw_content |-> out]

\* LLMService.generate_content: a provider exception gives success=False;
\* otherwise success=True with whatever _parse_response returned.
generate_content(out) ==
    IF out.kind = "provider_error"
    THEN [success |-> FALSE, result |-> parse_response(out)]
    ELSE [success |-> TRUE, result |-> parse_response(out)]

-----------------------------------------------------------------------------
(* Quiz store                                                              *)

VARIABLES
    quizzes,          \* db.quizzes: the sequence of quiz documents
    attempts,         \* db.quiz_attempts: the sequence of attempt documents
    calls,            \* the locals of the requests served concurrently
    assets,           \* db.assets: the sequence of asset documents
    llm_response,     \* the text a provider call returned, and its parse
    pc,               \* position of the generation request being served
    request,          \* the QuizGenerationRequest being served
    modules_info,     \* course_info resolved for the request
    idx,              \* index in modules_info of the next module of the loop
    result,           \* the result dict of the request being served
    generated_count,  \* counters of _generate_quizzes_for_all_modules
    skipped_count

vars == << quizzes, attempts, calls, assets, llm_response, pc, request, modules_info, idx, result,
           generated_count, skipped_count >>

QuizIds(qs) == 1..Len(qs)

\* Ids from the newest document to the oldest (sort created_at descending).
Descending(n) == [i \in 1..n |-> n + 1 - i]

\* QuizService.create_quiz: total_questions = len(questions), is_active=True,
\* is_deleted=False, insert_one.  A failed insert raises.
create_quiz(qs, quiz_data, insertOk) ==
    IF ~insertOk
    THEN [raised |-> TRUE, quizzes |-> qs, quiz |-> 0]
    ELSE [raised |-> FALSE,
          quizzes |-> Append(qs,
              [course_id |-> quiz_data.course_id,
               module_code |-> quiz_data.module_code,
               questions |-> quiz_data.questions,
               total_questions |-> Len(quiz_data.questions),
               is_active |-> TRUE,
               is_deleted |-> FALSE]),
          quiz |-> Len(qs) + 1]

\* QuizService.get_quizzes_by_course: active, non-deleted quizzes of the
\* course, filtered by module_code when it is truthy, newest first.  A read
\* error is caught and yields the empty list.
get_quizzes_by_course(qs, course_id, module_code, readOk) ==
    IF ~readOk
    THEN << >>
    ELSE SelectSeq(Descending(Len(qs)),
             LAMBDA i : /\ qs[i].course_id = course_id
                        /\ qs[i].is_active
                        /\ ~qs[i].is_deleted
                        /\ (module_code # "" => qs[i].module_code = module_code))

\* QuizService.update_quiz with the total_questions recomputation left out.
update_quiz_stale_total(qs, quiz_id, patch, writeOk) ==
    IF ~writeOk
    THEN [raised |-> TRUE, quizzes |-> qs, found |-> FALSE]
    ELSE IF quiz_id \notin QuizIds(qs)
    THEN [raised |-> FALSE, quizzes |-> qs, found |-> FALSE]
    ELSE LET q == qs[quiz_id]
             q1 == IF patch.has_questions
                   THEN [q EXCEPT !.questions = patch.questions]
                   ELSE q
             q2 == IF patch.has_is_active
                   THEN [q1 EXCEPT !.is_active = patch.is_active]
                   ELSE q1
         IN [raised |-> FALSE,
             quizzes |-> [qs EXCEPT ![quiz_id] = q2],
             found |-> TRUE]

\* An update_quiz that replaces the document (replace_one) instead of
\* setting fields: the flags the patch does not carry fall back to the
\* defaults of the Quiz model (is_active=True, is_deleted=False).
update_quiz_replacing(qs, quiz_id, patch, writeOk) ==
    IF ~writeOk
    THEN [raised |-> TRUE, quizzes |-> qs, found |-> FALSE]
    ELSE IF quiz_id \notin QuizIds(qs)
    THEN [raised |-> FALSE, quizzes |-> qs, found |-> FALSE]
    ELSE LET q == qs[quiz_id]
             q1 == IF patch.has_questions
                   THEN [q EXCEPT !.questions = patch.questions,
                                  !.total_questions = Len(patch.questions)]
                   ELSE q
             q2 == [q1 EXCEPT !.is_active = IF patch.has_is_active
                                            THEN patch.is_active ELSE TRUE,
                              !.is_deleted = FALSE]
         IN [raised |-> FALSE,
             quizzes |-> [qs EXCEPT ![quiz_id] = q2],
             found |-> TRUE]

\* QuizService.update_quiz: $set of the fields present in the patch, with
\* total_questions recomputed when questions is present; matches by _id only.
update_quiz(qs, quiz_id, patch, writeOk) ==
    IF ~writeOk
    THEN [raised |-> TRUE, quizzes |-> qs, found |-> FALSE]
    ELSE IF quiz_id \notin QuizIds(qs)
    THEN [raised |-> FALSE, quizzes |-> qs, found |-> FALSE]
    ELSE LET q == qs[quiz_id]
             q1 == IF patch.has_questions
                   THEN [q EXCEPT !.questions = patch.questions,
                                  !.total_questions = Len(patch.questions)]
                   ELSE q
             q2 == IF patch.has_is_active
                   THEN [q1 EXCEPT !.is_active = patch.is_active]
                   ELSE q1
         IN [raised |-> FALSE,
             quizzes |-> [qs EXCEPT ![quiz_id] = q2],
             found |-> TRUE]

\* A delete_quiz that removes the document instead of flagging it.
delete_quiz_physical(qs, quiz_id, writeOk) ==
    IF ~writeOk
    THEN [raised |-> TRUE, quizzes |-> qs, found |-> FALSE]
    ELSE IF quiz_id \notin QuizIds(qs)
    THEN [raised |-> FALSE, quizzes |-> qs, found |-> FALSE]
    ELSE [raised |-> FALSE,
          quizzes |-> SubSeq(qs, 1, quiz_id - 1) \o SubSeq(qs, quiz_id + 1, Len(qs)),
          found |-> TRUE]

\* QuizService.delete_quiz: $set is_deleted=True, is_active=False by _id.
delete_quiz(qs, quiz_id, writeOk) ==
    IF ~writeOk
    THEN [raised |-> TRUE, quizzes |-> qs, found |-> FALSE]
    ELSE IF quiz_id \notin QuizIds(qs)
    THEN [raised |-> FALSE, quizzes |-> qs, found |-> FALSE]
    ELSE [raised |-> FALSE,
          quizzes |-> [qs EXCEPT ![quiz_id].is_deleted = TRUE,
                                 ![quiz_id].is_active = FALSE],
          found |-> TRUE]

\* A soft delete that only deactivates: $set is_active=False, without
\* is_deleted=True.
mark_existing_quizzes_as_inactive(qs, course_id, module_code, writeOk) ==
    IF ~writeOk
    THEN [raised |-> TRUE, quizzes |-> qs, deleted_count |-> 0]
    ELSE LET hit(i) == /\ qs[i].course_id = course_id
                       /\ qs[i].module_code = module_code
                       /\ ~qs[i].is_deleted
         IN [raised |-> FALSE,
             quizzes |-> [i \in QuizIds(qs) |->
                            IF hit(i)
                            THEN [qs[i] EXCEPT !.is_active = FALSE]
                            ELSE qs[i]],
             deleted_count |-> Cardinality({i \in QuizIds(qs) : hit(i)})]

\* QuizService.mark_existing_quizzes_as_deleted: update_many on the filter
\* {course_id, module_code, is_deleted: False}.  A failed write raises.
mark_existing_quizzes_as_deleted(qs, course_id, module_code, writeOk) ==
    IF ~writeOk
    THEN [raised |-> TRUE, quizzes |-> qs, deleted_count |-> 0]
    ELSE LET hit(i) == /\ qs[i].course_id = course_id
                       /\ qs[i].module_code = module_code
                       /\ ~qs[i].is_deleted
         IN [raised |-> FALSE,
             quizzes |-> [i \in QuizIds(qs) |->
                            IF hit(i)
                            THEN [qs[i] EXCEPT !.is_deleted = TRUE,
                                               !.is_active = FALSE]
                            ELSE qs[i]],
             deleted_count |-> Cardinality({i \in QuizIds(qs) : hit(i)})]

-----------------------------------------------------------------------------
(* Attempt scorer                                                          *)

\* QuizService.get_quiz: find_one by _id only; None (0) when no document has
\* the id or the read fails.  is_deleted and is_active are not looked at.
get_quiz(qs, quiz_id, readOk) ==
    IF readOk /\ quiz_id \in QuizIds(qs) THEN quiz_id ELSE 0

\* A scoring loop that looks each answer's question up by its
\* question_index instead of by its position in the answers list.
calculate_score_by_question_index(questions, answers) ==
    Cardinality({ i \in 1..Len(answers) :
                    /\ answers[i].question_index < Len(questions)
                    /\ answers[i].selected_answer
                         = questions[answers[i].question_index + 1].correct_answer })

\* The scoring loop of create_quiz_attempt: `for i, answer in
\* enumerate(answers)` compares the answer at position i of the list with
\* question i when i < len(questions); question_index is not read.
\* (Positions are 0-based in the code and 1-based here.)
calculate_score(questions, answers) ==
    Cardinality({ i \in 1..Len(answers) :
                    /\ i - 1 < Len(questions)
                    /\ answers[i].selected_answer = questions[i].correct_answer })

\* Binary floating point (IEEE 754 double, round to nearest, ties to even),
\* as far as `int((score / max_score) * 100)` needs it.  A float is
\* mant * 2^exp with mant a natural number written as its bits, least
\* significant first.  Long numbers are handled in chunks of ChunkBits bits.
MantissaBits == 53
ChunkBits == 15

NatToBits(n, width) == [i \in 1..width |-> (n \div 2^(i - 1)) % 2]

RECURSIVE BitsToNat(_)
BitsToNat(bits) ==
    IF bits = << >> THEN 0 ELSE Head(bits) + 2 * BitsToNat(Tail(bits))

\* The bits of a natural number without its leading zeros.
StripZeros(bits) ==
    IF \A i \in 1..Len(bits) : bits[i] = 0 THEN << >>
    ELSE SubSeq(bits, 1, CHOOSE k \in 1..Len(bits) :
                            /\ bits[k] = 1
                            /\ \A j \in (k + 1)..Len(bits) : bits[j] = 0)

\* bits + 1
Increment(bits) ==
    IF \A i \in 1..Len(bits) : bits[i] = 1
    THEN [i \in 1..Len(bits) |-> 0] \o << 1 >>
    ELSE LET p == CHOOSE i \in 1..Len(bits) :
                      /\ bits[i] = 0
                      /\ \A j \in 1..(i - 1) : bits[j] = 1
         IN [i \in 1..Len(bits) |->
                IF i < p THEN 0 ELSE IF i = p THEN 1 ELSE bits[i]]

\* Drop the d low bits of a natural number, rounding to nearest, ties to even.
RoundBits(bits, d) ==
    IF d <= 0 THEN bits
    ELSE LET kept == SubSeq(bits, d + 1, Len(bits))
             half == bits[d] = 1
             sticky == \E i \in 1..(d - 1) : bits[i] = 1
             up == half /\ (sticky \/ kept[1] = 1)
         IN IF up THEN Increment(kept) ELSE kept

\* The first MantissaBits bits of the fraction rem / den (rem < den), by
\* long division a chunk at a time, and the remainder left.
FractionBits(rem, den) ==
    LET last == MantissaBits - 3 * ChunkBits
        q1 == (rem * 2^ChunkBits) \div den
        r1 == (rem * 2^ChunkBits) % den
        q2 == (r1 * 2^ChunkBits) \div den
        r2 == (r1 * 2^ChunkBits) % den
        q3 == (r2 * 2^ChunkBits) \div den
        r3 == (r2 * 2^ChunkBits) % den
        q4 == (r3 * 2^last) \div den
        r4 == (r3 * 2^last) % den
    IN [bits |-> NatToBits(q4, last) \o NatToBits(q3, ChunkBits)
                   \o NatToBits(q2, ChunkBits) \o NatToBits(q1, ChunkBits),
        rem |-> r4]

\* The least t with a * 2^t >= m, for 0 < a.
RECURSIVE Normalize(_, _)
Normalize(a, m) == IF a >= m THEN 0 ELSE 1 + Normalize(2 * a, m)

\* score / max_score (true division) for 0 <= score and 0 < max_score.
\* num / den is the quotient scaled by a power of two into [1, 2); its
\* leading 1 and MantissaBits fraction bits are computed, a remainder left
\* over is kept as one more (sticky) bit, and the two extra bits are
\* rounded away.
float_truediv(score, max_score) ==
    IF score = 0 THEN [mant |-> << >>, exp |-> 0]
    ELSE LET e == IF score >= max_score
                  THEN Normalize(max_score, score + 1) - 1
                  ELSE -Normalize(score, max_score)
             num == IF e < 0 THEN score * 2^(-e) ELSE score
             den == IF e > 0 THEN max_score * 2^e ELSE max_score
             frac == FractionBits(num - den, den)
             sticky == IF frac.rem > 0 THEN 1 ELSE 0
             exact == << sticky >> \o frac.bits \o << 1 >>
         IN [mant |-> RoundBits(exact, 2), exp |-> e - (MantissaBits - 1)]

\* x * 100 for a float x: the exact product, a chunk at a time with carry,
\* rounded to MantissaBits bits.
float_mul_100(x) ==
    LET chunk(j) == BitsToNat(SubSeq(x.mant, ChunkBits * (j - 1) + 1,
                                     IF ChunkBits * j < Len(x.mant)
                                     THEN ChunkBits * j ELSE Len(x.mant)))
        p1 == chunk(1) * 100
        p2 == chunk(2) * 100 + p1 \div 2^ChunkBits
        p3 == chunk(3) * 100 + p2 \div 2^ChunkBits
        p4 == chunk(4) * 100 + p3 \div 2^ChunkBits
        product == StripZeros(NatToBits(p1 % 2^ChunkBits, ChunkBits)
                              \o NatToBits(p2 % 2^ChunkBits, ChunkBits)
                              \o NatToBits(p3 % 2^ChunkBits, ChunkBits)
                              \o NatToBits(p4, ChunkBits + 7))
        d == Len(product) - MantissaBits
    IN IF d <= 0 THEN [mant |-> product, exp |-> x.exp]
       ELSE [mant |-> RoundBits(product, d), exp |-> x.exp + d]

\* int(x) for a float x >= 0: truncation.
int_trunc(x) ==
    IF x.exp >= 0
    THEN BitsToNat(x.mant) * 2^x.exp
    ELSE IF -x.exp >= Len(x.mant) THEN 0
    ELSE BitsToNat(SubSeq(x.mant, 1 - x.exp, Len(x.mant)))

\* percentage = int((score / max_score) * 100) if max_score > 0 else 0
calculate_percentage(score, max_score) ==
    IF max_score > 0
    THEN int_trunc(float_mul_100(float_truediv(score, max_score)))
    ELSE 0

\* A create_quiz_attempt that stores the attempt as started, to be scored
\* and completed by a later step.
create_quiz_attempt_unscored(qs, atts, quiz_id, answers, readOk, insertOk) ==
    LET quiz == get_quiz(qs, quiz_id, readOk)
    IN IF quiz = 0
       THEN [raised |-> "ValueError", attempts |-> atts]
       ELSE IF ~insertOk
       THEN [raised |-> "Exception", attempts |-> atts]
       ELSE [raised |-> "",
             attempts |-> Append(atts,
                 [quiz_id |-> quiz_id,
                  answers |-> answers,
                  score |-> 0,
                  max_score |-> Len(qs[quiz].questions),
                  percentage |-> 0,
                  is_completed |-> FALSE])]

\* QuizService.create_quiz_attempt: ValueError("Quiz not found") when
\* get_quiz returns None; else the attempt document, scored and with
\* is_completed=True, is inserted.  A failed insert raises.
create_quiz_attempt(qs, atts, quiz_id, answers, readOk, insertOk) ==
    LET quiz == get_quiz(qs, quiz_id, readOk)
    IN IF quiz = 0
       THEN [raised |-> "ValueError", attempts |-> atts]
       ELSE LET score == calculate_score(qs[quiz].questions, answers)
                max_score == Len(qs[quiz].questions)
                percentage == calculate_percentage(score, max_score)
            IN IF ~insertOk
               THEN [raised |-> "Exception", attempts |-> atts]
               ELSE [raised |-> "",
                     attempts |-> Append(atts,
                         [quiz_id |-> quiz_id,
                          answers |-> answers,
                          score |-> score,
                          max_score |-> max_score,
                          percentage |-> percentage,
                          is_completed |-> TRUE])]

\* schemas.quiz.QuizAttemptAnswer: question_index >= 0, selected_answer >= 0.
QuizAttemptAnswer(question_index, selected_answer) ==
    [question_index |-> question_index, selected_answer |-> selected_answer]

\* Answers lists of QuizAttemptCreate bodies (min_items=1), for quizzes
\* whose questions have correct_answer 2: right and wrong answers, answers
\* in another order than the questions, a repeated question_index, an
\* out-of-range question_index, and more answers than questions.
AnswerLists ==
    { << QuizAttemptAnswer(0, 2) >>,
      << QuizAttemptAnswer(0, 0) >>,
      << QuizAttemptAnswer(0, 2), QuizAttemptAnswer(1, 2) >>,
      << QuizAttemptAnswer(1, 0), QuizAttemptAnswer(0, 2) >>,
      << QuizAttemptAnswer(0, 0), QuizAttemptAnswer(0, 2) >>,
      << QuizAttemptAnswer(2, 2) >>,
      << QuizAttemptAnswer(0, 2), QuizAttemptAnswer(0, 2), QuizAttemptAnswer(0, 2) >> }

\* The answers list that answers every question in order, the first k of
\* them with the correct answer and the others with a wrong one.
AnsweredInOrder(questions, k) ==
    [i \in 1..Len(questions) |->
        QuizAttemptAnswer(i - 1,
            IF i <= k THEN questions[i].correct_answer
                      ELSE questions[i].correct_answer + 1)]

-----------------------------------------------------------------------------
(* Generation orchestrator                                                 *)

\* A generate_quiz_for_module whose insert failure escapes to the caller.
generate_quiz_for_module_raising(qs, course_id, module_code, out, insertOk) ==
    LET response == generate_content(out)
        quiz_data == response.result
    IN IF ~response.success
       THEN [quizzes |-> qs, quiz |-> 0, raised |-> FALSE]
       ELSE IF quiz_data.error
       THEN [quizzes |-> qs, quiz |-> 0, raised |-> FALSE]
       ELSE IF ~QuizCreate(quiz_data.title_len, quiz_data.questions)
       THEN [quizzes |-> qs, quiz |-> 0, raised |-> FALSE]
       ELSE LET created == create_quiz(qs,
                               [course_id |-> course_id,
                                module_code |-> module_code,
                                questions |-> quiz_data.questions],
                               insertOk)
            IN [quizzes |-> created.quizzes, quiz |-> created.quiz,
                raised |-> created.raised]

\* QuizService.generate_quiz_for_module: quiz is the id of the created quiz,
\* or 0 for None.  Every exception (QuizCreate validation, failed insert) is
\* caught inside, so nothing is raised to the caller.  module_content and
\* module_title only enter the prompt text, and no branch tests them: the
\* request is sent whatever the content is, and the capability answers out.
generate_quiz_for_module(qs, course_id, module_code, out, insertOk) ==
    LET response == generate_content(out)
        quiz_data == response.result
    IN IF ~response.success
       THEN [quizzes |-> qs, quiz |-> 0, raised |-> FALSE]
       ELSE IF quiz_data.error
       THEN [quizzes |-> qs, quiz |-> 0, raised |-> FALSE]
       ELSE IF ~QuizCreate(quiz_data.title_len, quiz_data.questions)
       THEN [quizzes |-> qs, quiz |-> 0, raised |-> FALSE]
       ELSE LET created == create_quiz(qs,
                               [course_id |-> course_id,
                                module_code |-> module_code,
                                questions |-> quiz_data.questions],
                               insertOk)
            IN [quizzes |-> created.quizzes, quiz |-> created.quiz,
                raised |-> FALSE]

\* A get_course_modules_info that falls back to every module of the course
\* when the requested module is not among them.
get_course_modules_info_fallback(course_id, module_code, readOk) ==
    LET course == find_course(course_id)
    IN IF ~readOk \/ ~course.found
       THEN << >>
       ELSE IF module_code # ""
       THEN LET hits == SelectSeq(course.modules,
                                  LAMBDA m : m.code = module_code)
            IN IF hits = << >> THEN course.modules ELSE << Head(hits) >>
       ELSE course.modules

\* QuizService.get_course_modules_info: [] when the read fails, the course
\* is unknown or the requested module is not in it; the first module with
\* the requested code; or every module in course order.
get_course_modules_info(course_id, module_code, readOk) ==
    LET course == find_course(course_id)
    IN IF ~readOk \/ ~course.found
       THEN << >>
       ELSE IF module_code # ""
       THEN LET hits == SelectSeq(course.modules,
                                  LAMBDA m : m.code = module_code)
            IN IF hits = << >> THEN << >> ELSE << Head(hits) >>
       ELSE course.modules

EmptyResult ==
    [success |-> TRUE, message |-> "", generated_quizzes |-> << >>,
     skipped_modules |-> << >>, errors |-> << >>]

NoRequest == [course_id |-> "", module_code |-> "", overwrite |-> FALSE]

FailedToGenerate(module_code) == [kind |-> "failed", module |-> module_code]
ExceptionText == [kind |-> "exception", module |-> ""]

\* The except clause of both generation helpers: errors.append(str(e)),
\* success = False.
on_exception(res) ==
    [res EXCEPT !.errors = Append(@, ExceptionText), !.success = FALSE]

\* QuizService._generate_quiz_for_single_module.
generate_quiz_for_single_module(qs, req, res, readOk, writeOk, out, insertOk) ==
    LET existing_quiz == get_quizzes_by_course(qs, req.course_id, req.module_code, readOk)
    IN IF existing_quiz # << >> /\ ~req.overwrite
       THEN [quizzes |-> qs,
             result |-> [res EXCEPT
                 !.skipped_modules = Append(@, req.module_code),
                 !.message = "Quiz already exists for this module"]]
       ELSE LET marked == IF existing_quiz # << >> /\ req.overwrite
                          THEN mark_existing_quizzes_as_deleted(
                                   qs, req.course_id, req.module_code, writeOk)
                          ELSE [raised |-> FALSE, quizzes |-> qs, deleted_count |-> 0]
            IN IF marked.raised
               THEN [quizzes |-> qs, result |-> on_exception(res)]
               ELSE LET gen == generate_quiz_for_module(marked.quizzes,
                                   req.course_id, req.module_code, out, insertOk)
                    IN IF gen.raised
                       THEN [quizzes |-> gen.quizzes, result |-> on_exception(res)]
                       ELSE IF gen.quiz # 0
                       THEN [quizzes |-> gen.quizzes,
                             result |-> [res EXCEPT
                                 !.generated_quizzes = Append(@, gen.quiz),
                                 !.message = "Quiz generated successfully"]]
                       ELSE [quizzes |-> gen.quizzes,
                             result |-> [res EXCEPT
                                 !.errors = Append(@, FailedToGenerate(req.module_code)),
                                 !.success = FALSE]]

\* One iteration of the loop of _generate_quizzes_for_all_modules.  raised
\* tells that an exception left the loop (caught by the outer except).
generate_quizzes_for_all_modules_body(qs, req, module_info, res, gc, sc, readOk, writeOk, out, insertOk) ==
    IF module_info.code = ""
    THEN [quizzes |-> qs, result |-> res, generated_count |-> gc,
          skipped_count |-> sc, raised |-> FALSE]
    ELSE
    LET existing_quiz == get_quizzes_by_course(qs, req.course_id, module_info.code, readOk)
    IN IF existing_quiz # << >> /\ ~req.overwrite
       THEN [quizzes |-> qs,
             result |-> [res EXCEPT !.skipped_modules = Append(@, module_info.code)],
             generated_count |-> gc, skipped_count |-> sc + 1, raised |-> FALSE]
       ELSE LET marked == IF existing_quiz # << >> /\ req.overwrite
                          THEN mark_existing_quizzes_as_deleted(
                                   qs, req.course_id, module_info.code, writeOk)
                          ELSE [raised |-> FALSE, quizzes |-> qs, deleted_count |-> 0]
            IN IF marked.raised
               THEN [quizzes |-> qs, result |-> on_exception(res),
                     generated_count |-> gc, skipped_count |-> sc, raised |-> TRUE]
               ELSE LET gen == generate_quiz_for_module(marked.quizzes,
                                   req.course_id, module_info.code, out, insertOk)
                    IN IF gen.raised
                       THEN [quizzes |-> gen.quizzes, result |-> on_exception(res),
                             generated_count |-> gc, skipped_count |-> sc,
                             raised |-> TRUE]
                       ELSE IF gen.quiz # 0
                       THEN [quizzes |-> gen.quizzes,
                             result |-> [res EXCEPT
                                 !.generated_quizzes = Append(@, gen.quiz)],
                             generated_count |-> gc + 1, skipped_count |-> sc,
                             raised |-> FALSE]
                       ELSE [quizzes |-> gen.quizzes,
                             result |-> [res EXCEPT
                                 !.errors = Append(@, FailedToGenerate(module_info.code))],
                             generated_count |-> gc, skipped_count |-> sc,
                             raised |-> FALSE]

\* The end of _generate_quizzes_for_all_modules: message and success.
set_result_message(res, gc, sc) ==
    IF gc > 0
    THEN [res EXCEPT !.message = IF sc > 0 THEN "Generated, skipped existing"
                                           ELSE "Generated"]
    ELSE IF sc > 0
    THEN [res EXCEPT !.message = "Skipped existing"]
    ELSE [res EXCEPT !.success = FALSE, !.message = "No quizzes were generated"]

-----------------------------------------------------------------------------
(* Requests                                                                *)

\* The requests that may be in flight together, and the locals of one that
\* is not being served.
Calls == {"a", "b"}

NoCall == [pc |-> "idle", overwrite |-> FALSE,
           out |-> [kind |-> "provider_error", title_len |-> NoTitle,
                    questions |-> << >>]]

\* No provider call has returned.
NoResponse == [text |-> << >>, content |-> << >>, parsed |-> FALSE,
               result |-> [error |-> TRUE, questions |-> << >>]]

TypeOK ==
    /\ Len(quizzes) + Len(attempts) <= MaxQuizzes
    /\ pc \in {"idle", "single", "loop", "done"}
    /\ idx \in 1..(Len(CourseModules) + 1)
    /\ result.success \in BOOLEAN

Init ==
    /\ quizzes = << >>
    /\ attempts = << >>
    /\ calls = [c \in Calls |-> NoCall]
    /\ assets = << >>
    /\ llm_response = NoResponse
    /\ pc = "idle"
    /\ request = NoRequest
    /\ modules_info = << >>
    /\ idx = 1
    /\ result = EmptyResult
    /\ generated_count = 0
    /\ skipped_count = 0

request_vars == << pc, request, modules_info, idx, result,
                   generated_count, skipped_count >>

\* A helper of the request returns res: the request, the resolved modules
\* and the counters are locals of the call and are gone with it.
Return(res) ==
    /\ pc' = "done"
    /\ result' = res
    /\ request' = NoRequest
    /\ modules_info' = << >>
    /\ idx' = 1
    /\ generated_count' = 0
    /\ skipped_count' = 0

\* POST /quizzes/: the body is validated as QuizCreate (a rejected body
\* never reaches the service), then QuizService.create_quiz.
CreateQuiz ==
    /\ pc = "idle"
    /\ \E course_id \in QuizCourseIds, module_code \in QuizModuleCodes,
          title_len \in TitleLengths, questions \in QuestionLists,
          insertOk \in BOOLEAN :
          /\ QuizCreate(title_len, questions)
          /\ quizzes' = create_quiz(quizzes,
                            [course_id |-> course_id, module_code |-> module_code,
                             questions |-> questions], insertOk).quizzes
    /\ Len(quizzes') + Len(attempts) <= MaxQuizzes
    /\ UNCHANGED << assets, llm_response, attempts, calls, request_vars >>

\* The QuizUpdate bodies: each field is either unset or given.
Patches ==
    { [has_questions |-> FALSE, questions |-> << >>,
       has_is_active |-> a, is_active |-> v] :
         a \in BOOLEAN, v \in BOOLEAN }
    \cup
    { [has_questions |-> TRUE, questions |-> qs,
       has_is_active |-> a, is_active |-> v] :
         qs \in QuestionLists, a \in BOOLEAN, v \in BOOLEAN }

\* PUT /quizzes/{quiz_id}: the body is validated as QuizUpdate, then
\* QuizService.update_quiz.  The id may be one no document has.
UpdateQuiz ==
    /\ pc = "idle"
    /\ \E quiz_id \in 1..(Len(quizzes) + 1), patch \in Patches,
          writeOk \in BOOLEAN :
          /\ QuizUpdate(patch)
          /\ (~patch.has_is_active => ~patch.is_active)
          /\ quizzes' = update_quiz(quizzes, quiz_id, patch, writeOk).quizzes
    /\ UNCHANGED << assets, llm_response, attempts, calls, request_vars >>

\* DELETE /quizzes/{quiz_id}: QuizService.delete_quiz.
DeleteQuiz ==
    /\ pc = "idle"
    /\ \E quiz_id \in 1..(Len(quizzes) + 1), writeOk \in BOOLEAN :
          quizzes' = delete_quiz(quizzes, quiz_id, writeOk).quizzes
    /\ UNCHANGED << assets, llm_response, attempts, calls, request_vars >>

\* QuizService.generate_quizzes_for_course up to the dispatch: resolve the
\* modules, fail when nothing was resolved, else go to the single-module
\* or the all-modules helper.
GenerateQuizzes ==
    /\ pc = "idle"
    /\ \E course_id \in CourseIds, module_code \in RequestModuleCodes,
          overwrite \in BOOLEAN, readOk \in BOOLEAN :
          LET course_info == get_course_modules_info(course_id, module_code, readOk)
          IN IF course_info = << >>
             THEN Return([EmptyResult EXCEPT
                              !.success = FALSE,
                              !.message = "Course or module not found"])
             ELSE /\ request' = [course_id |-> course_id,
                                 module_code |-> module_code,
                                 overwrite |-> overwrite]
                  /\ modules_info' = course_info
                  /\ result' = EmptyResult
                  /\ pc' = IF module_code # "" THEN "single" ELSE "loop"
                  /\ idx' = 1
                  /\ generated_count' = 0
                  /\ skipped_count' = 0
    /\ UNCHANGED << assets, llm_response, quizzes, attempts, calls >>

\* The same request for every module of the course whose modules share a
\* code.
GenerateQuizzesTwin ==
    /\ pc = "idle"
    /\ \E overwrite \in BOOLEAN, readOk \in BOOLEAN :
          LET course_info == get_course_modules_info(TwinCourseId, "", readOk)
          IN IF course_info = << >>
             THEN Return([EmptyResult EXCEPT
                              !.success = FALSE,
                              !.message = "Course or module not found"])
             ELSE /\ request' = [course_id |-> TwinCourseId,
                                 module_code |-> "",
                                 overwrite |-> overwrite]
                  /\ modules_info' = course_info
                  /\ result' = EmptyResult
                  /\ pc' = "loop"
                  /\ idx' = 1
                  /\ generated_count' = 0
                  /\ skipped_count' = 0
    /\ UNCHANGED << assets, llm_response, quizzes, attempts, calls >>

\* The calls a helper makes while it processes module_code, given the
\* answers to the calls before: the soft delete when the existence check
\* found a quiz and overwrite is set; the generation unless the module is
\* skipped or the soft delete raised; the insert when the output passed
\* both validations.  A call that is not made has no answer to vary, so
\* its answer is fixed in the steps below.
CallsSoftDelete(module_code, readOk) ==
    /\ request.overwrite
    /\ get_quizzes_by_course(quizzes, request.course_id, module_code, readOk) # << >>

CallsGeneration(module_code, readOk, writeOk) ==
    IF get_quizzes_by_course(quizzes, request.course_id, module_code, readOk) # << >>
    THEN request.overwrite /\ writeOk
    ELSE TRUE

CallsInsert(out) ==
    /\ generate_content(out).success
    /\ ~generate_content(out).result.error
    /\ QuizCreate(out.title_len, out.questions)

NoOutput == [kind |-> "provider_error", title_len |-> NoTitle, questions |-> << >>]

\* QuizService._generate_quiz_for_single_module, as one step.
SingleModule ==
    /\ pc = "single"
    /\ \E readOk \in BOOLEAN :
       \E writeOk \in IF CallsSoftDelete(request.module_code, readOk)
                      THEN BOOLEAN ELSE {TRUE} :
       \E out \in IF CallsGeneration(request.module_code, readOk, writeOk)
                  THEN LLMOutputs ELSE {NoOutput} :
       \E insertOk \in IF CallsGeneration(request.module_code, readOk, writeOk)
                          /\ CallsInsert(out)
                       THEN BOOLEAN ELSE {TRUE} :
          LET r == generate_quiz_for_single_module(
                       quizzes, request, result, readOk, writeOk, out, insertOk)
          IN /\ quizzes' = r.quizzes
             /\ Return(r.result)
    /\ Len(quizzes') + Len(attempts) <= MaxQuizzes
    /\ UNCHANGED << assets, llm_response, attempts, calls >>

\* One iteration of the loop of _generate_quizzes_for_all_modules.  An
\* exception leaves the loop and the helper returns from its except clause.
AllModulesStep ==
    /\ pc = "loop"
    /\ idx <= Len(modules_info)
    /\ \E readOk \in IF modules_info[idx].code # "" THEN BOOLEAN ELSE {TRUE} :
       \E writeOk \in IF /\ modules_info[idx].code # ""
                         /\ CallsSoftDelete(modules_info[idx].code, readOk)
                      THEN BOOLEAN ELSE {TRUE} :
       \E out \in IF /\ modules_info[idx].code # ""
                     /\ CallsGeneration(modules_info[idx].code, readOk, writeOk)
                  THEN LLMOutputs ELSE {NoOutput} :
       \E insertOk \in IF /\ modules_info[idx].code # ""
                          /\ CallsGeneration(modules_info[idx].code, readOk, writeOk)
                          /\ CallsInsert(out)
                       THEN BOOLEAN ELSE {TRUE} :
          LET r == generate_quizzes_for_all_modules_body(
                       quizzes, request, modules_info[idx], result,
                       generated_count, skipped_count,
                       readOk, writeOk, out, insertOk)
          IN /\ quizzes' = r.quizzes
             /\ IF r.raised
                THEN Return(r.result)
                ELSE /\ result' = r.result
                     /\ generated_count' = r.generated_count
                     /\ skipped_count' = r.skipped_count
                     /\ pc' = "loop"
                     /\ idx' = idx + 1
                     /\ UNCHANGED << request, modules_info >>
    /\ Len(quizzes') + Len(attempts) <= MaxQuizzes
    /\ UNCHANGED << assets, llm_response, attempts, calls >>

\* The loop of _generate_quizzes_for_all_modules is over: set the message
\* and return the result.
AllModulesFinish ==
    /\ pc = "loop"
    /\ idx > Len(modules_info)
    /\ Return(set_result_message(result, generated_count, skipped_count))
    /\ UNCHANGED << assets, llm_response, quizzes, attempts, calls >>

\* The generation capability never answers.  generate_content awaits
\* asyncio.to_thread(client.generate_content, ...) with no wait_for and no
\* timeout argument, so the await never completes: the helper has made its
\* existence check and, on the overwrite path, its soft delete, and stays
\* suspended in the call (pc = "hung", which no step leaves).
GenerationHangs ==
    /\ pc \in {"single", "loop"}
    /\ pc = "loop" => idx <= Len(modules_info)
    /\ LET module_code == IF pc = "single" THEN request.module_code
                          ELSE modules_info[idx].code
       IN /\ module_code # ""
          /\ \E readOk \in BOOLEAN :
             \E writeOk \in IF CallsSoftDelete(module_code, readOk)
                            THEN BOOLEAN ELSE {TRUE} :
                /\ CallsGeneration(module_code, readOk, writeOk)
                /\ quizzes' = IF CallsSoftDelete(module_code, readOk)
                              THEN mark_existing_quizzes_as_deleted(quizzes,
                                       request.course_id, module_code, writeOk).quizzes
                              ELSE quizzes
    /\ pc' = "hung"
    /\ UNCHANGED << assets, llm_response, attempts, calls, request, modules_info, idx, result,
                    generated_count, skipped_count >>

\* POST /quizzes/attempt: the body is validated as QuizAttemptCreate, then
\* QuizService.create_quiz_attempt.  The id may be one no document has.
CreateQuizAttempt ==
    /\ pc = "idle"
    /\ \E quiz_id \in 1..(Len(quizzes) + 1), readOk \in BOOLEAN,
          insertOk \in BOOLEAN :
          \E answers \in AnswerLists \cup
                 UNION { { AnsweredInOrder(quizzes[i].questions, k) :
                             k \in 0..Len(quizzes[i].questions) } :
                         i \in QuizIds(quizzes) } :
              attempts' = create_quiz_attempt(quizzes, attempts, quiz_id,
                                              answers, readOk, insertOk).attempts
    /\ Len(quizzes) + Len(attempts') <= MaxQuizzes
    /\ UNCHANGED << assets, llm_response, quizzes, calls, request_vars >>

\* The response has been sent; the service holds no state between requests.
Respond ==
    /\ pc = "done"
    /\ pc' = "idle"
    /\ result' = EmptyResult
    /\ UNCHANGED << assets, llm_response, quizzes, attempts, calls, request, modules_info, idx,
                    generated_count, skipped_count >>

Next ==
    \/ CreateQuiz
    \/ UpdateQuiz
    \/ DeleteQuiz
    \/ GenerateQuizzes
    \/ SingleModule
    \/ AllModulesStep
    \/ AllModulesFinish
    \/ Respond

Spec == Init /\ [][Next]_vars

\* The same service when no quiz is created manually: every quiz of the
\* store was persisted by a generation request.
NextGenerated ==
    \/ UpdateQuiz
    \/ DeleteQuiz
    \/ GenerateQuizzes
    \/ SingleModule
    \/ AllModulesStep
    \/ AllModulesFinish
    \/ Respond

SpecGenerated == Init /\ [][NextGenerated]_vars

\* The attempt flow with the quiz operations it can meet.  Scoring is
\* independent of generation: create_quiz_attempt only reads db.quizzes,
\* and neither the quiz operations nor the generation helpers access
\* db.quiz_attempts.
NextAttempts ==
    \/ CreateQuiz
    \/ UpdateQuiz
    \/ DeleteQuiz
    \/ CreateQuizAttempt

SpecAttempts == Init /\ [][NextAttempts]_vars

\* The service with a generation capability that may never answer.  The
\* event loop resumes a coroutine whose awaited call has completed, so a
\* helper that can take its next step takes it (weak fairness); a
\* suspended call that never completes is resumed by nothing.
NextHang ==
    \/ Next
    \/ GenerationHangs

SpecHang ==
    /\ Init
    /\ [][NextHang]_vars
    /\ WF_vars(SingleModule)
    /\ WF_vars(AllModulesStep)
    /\ WF_vars(AllModulesFinish)

\* The quiz operations alone, from the empty store.
NextStore ==
    \/ CreateQuiz
    \/ UpdateQuiz
    \/ DeleteQuiz

SpecStore == Init /\ [][NextStore]_vars

\* Batch requests, one at a time, over the course whose modules share a
\* code.
NextTwin ==
    \/ GenerateQuizzesTwin
    \/ AllModulesStep
    \/ AllModulesFinish
    \/ Respond

SpecTwin == Init /\ [][NextTwin]_vars

\* The percentage computation over its inputs: the store holds one quiz,
\* as create_quiz stores it, with any number of questions up to
\* MaxQuestions (QuizBase.questions has no max_items), and attempts with
\* every score from 0 to that number are submitted.
InitPercentage ==
    /\ \E n \in 1..MaxQuestions :
           quizzes = create_quiz(<< >>,
                         [course_id |-> "c1", module_code |-> "m1",
                          questions |-> [i \in 1..n |-> InRange]], TRUE).quizzes
    /\ attempts = << >>
    /\ calls = [c \in Calls |-> NoCall]
    /\ assets = << >>
    /\ llm_response = NoResponse
    /\ pc = "idle"
    /\ request = NoRequest
    /\ modules_info = << >>
    /\ idx = 1
    /\ result = EmptyResult
    /\ generated_count = 0
    /\ skipped_count = 0

SpecPercentage == InitPercentage /\ [][CreateQuizAttempt]_vars

-----------------------------------------------------------------------------
(* Asset content extractor                                                 *)

\* Text is a sequence of pieces: a literal of the source, the value of a
\* field, or a number formatted into an f-string.  "" is << >> and + is \o.
Str(s) == [s |-> s, n |-> 0]
Num(n) == [s |-> "#", n |-> n]

\* a or b on strings: the first operand unless it is empty.
Or(a, b) == IF a # << >> THEN a ELSE b

\* str.upper() and str.title() on the type names in use.
upper(asset_type) ==
    CASE asset_type = "text" -> "TEXT"
      [] asset_type = "video" -> "VIDEO"
      [] asset_type = "pdf" -> "PDF"
      [] asset_type = "audio" -> "AUDIO"
      [] asset_type = "image" -> "IMAGE"
      [] OTHER -> "QUIZ"

title(asset_type) ==
    CASE asset_type = "text" -> "Text"
      [] asset_type = "video" -> "Video"
      [] asset_type = "pdf" -> "Pdf"
      [] asset_type = "audio" -> "Audio"
      [] asset_type = "image" -> "Image"
      [] OTHER -> "Quiz"

\* if asset.get("duration"): the field is there and is not 0.
duration_given(asset) == asset.has_duration /\ asset.duration # 0

\* A duration formatted in seconds, without the division by 60.
duration_text_seconds(asset) ==
    << Str(" (Duration: "), Num(asset.duration), Str(" minutes)") >>

duration_text(asset) ==
    << Str(" (Duration: "), Num(asset.duration \div 60), Str(" minutes)") >>

\* The content of one asset as the loop of _get_module_assets_content
\* builds it: the branch on the type, then the Description line, then the
\* Difficulty line.
asset_content(asset) ==
    LET by_type ==
            CASE asset.type = "text" -> asset.content
              [] asset.type = "video" ->
                    LET content == Or(asset.transcript, Or(asset.description,
                                       Or(asset.content,
                                          << Str("Video content: ") >> \o asset.title)))
                    IN IF duration_given(asset)
                       THEN content \o duration_text(asset) ELSE content
              [] asset.type = "pdf" ->
                    Or(asset.extracted_text, Or(asset.summary,
                        Or(asset.content, << Str("PDF document: ") >> \o asset.title)))
              [] asset.type = "audio" ->
                    LET content == Or(asset.transcript, Or(asset.description,
                                       Or(asset.content,
                                          << Str("Audio content: ") >> \o asset.title)))
                    IN IF duration_given(asset)
                       THEN content \o duration_text(asset) ELSE content
              [] asset.type = "image" ->
                    Or(asset.description, Or(asset.alt_text,
                        Or(asset.content, << Str("Image: ") >> \o asset.title)))
              [] OTHER ->
                    Or(asset.content,
                       << Str(title(asset.type)), Str(": ") >> \o asset.title)
        described ==
            IF /\ asset.description # << >>
               /\ asset.type # "image"
               /\ by_type # asset.description
            THEN by_type \o << Str("\nDescription: ") >> \o asset.description
            ELSE by_type
    IN IF asset.difficulty # << >>
       THEN described \o << Str("\nDifficulty: ") >> \o asset.difficulty
       ELSE described

\* str.strip() on a content: field values carry no surrounding whitespace,
\* so the only whitespace at an end is the line break that opens a
\* Description or Difficulty line put first.
strip(text) ==
    IF text = << >> THEN << >>
    ELSE IF Head(text) = Str("\nDescription: ")
    THEN << Str("Description: ") >> \o Tail(text)
    ELSE IF Head(text) = Str("\nDifficulty: ")
    THEN << Str("Difficulty: ") >> \o Tail(text)
    ELSE text

asset_header(asset) ==
    << Str("Asset ("), Str(upper(asset.type)), Str("): ") >> \o asset.title

RECURSIVE join(_)
join(blocks) ==
    IF Len(blocks) = 1 THEN Head(blocks)
    ELSE Head(blocks) \o << Str("\n\n") >> \o join(Tail(blocks))

Banner == << Str("\n\n"), Str("==================================================") >>

\* QuizService._get_module_assets_content on the asset documents found:
\* one block per asset whose content is not blank, joined between banners;
\* "" when no asset gave a block.
get_module_assets_content(found) ==
    LET kept == SelectSeq(found, LAMBDA asset : strip(asset_content(asset)) # << >>)
        assets_content ==
            [i \in 1..Len(kept) |->
                asset_header(kept[i]) \o << Str("\n") >> \o strip(asset_content(kept[i]))]
    IN IF assets_content = << >> THEN << >>
       ELSE Banner \o join(assets_content) \o Banner

\* Asset documents: a type (missing is "text"; "quiz" is a type the
\* extractor does not know), a title, the text fields (empty or given,
\* each with a text of its own), a duration in seconds (missing, 0, or
\* more) and a difficulty.
AssetTypes == {"text", "video", "pdf", "audio", "image", "quiz"}

FieldValues(name) == { << >>, << Str(name) >> }

Durations ==
    { [has_duration |-> FALSE, duration |-> 0],
      [has_duration |-> TRUE, duration |-> 0],
      [has_duration |-> TRUE, duration |-> 59],
      [has_duration |-> TRUE, duration |-> 125] }

Assets ==
    { [type |-> t, title |-> << Str("title") >>,
       content |-> c, transcript |-> tr, description |-> de,
       extracted_text |-> ex, summary |-> su, alt_text |-> al,
       has_duration |-> du.has_duration, duration |-> du.duration,
       difficulty |-> di] :
        t \in AssetTypes, c \in FieldValues("content"),
        tr \in FieldValues("transcript"), de \in FieldValues("description"),
        ex \in FieldValues("extracted_text"), su \in FieldValues("summary"),
        al \in FieldValues("alt_text"), du \in Durations,
        di \in FieldValues("hard") }

\* get_course_modules_info resolves a module whose assets are the
\* documents of db.assets: its assets_content is what the extractor gives.
ResolveModule ==
    /\ pc = "idle"
    /\ modules_info = << >>
    /\ assets # << >>
    /\ modules_info' = << [code |-> "m1",
                           assets_content |-> get_module_assets_content(assets)] >>
    /\ UNCHANGED << quizzes, attempts, calls, assets, llm_response, pc, request, idx,
                    result,
                    generated_count, skipped_count >>

\* The extractor over its inputs: db.assets holds one asset document.
InitExtract ==
    /\ quizzes = << >>
    /\ attempts = << >>
    /\ calls = [c \in Calls |-> NoCall]
    /\ \E asset \in Assets : assets = << asset >>
    /\ llm_response = NoResponse
    /\ pc = "idle"
    /\ request = NoRequest
    /\ modules_info = << >>
    /\ idx = 1
    /\ result = EmptyResult
    /\ generated_count = 0
    /\ skipped_count = 0

SpecExtract == InitExtract /\ [][ResolveModule]_vars

-----------------------------------------------------------------------------
(* Response parser                                                         *)

\* The text of a response as a sequence of pieces: "{" is the text of a
\* quiz object up to the inside of its question string, "}" the text that
\* closes the string and the object, "x" a character of the question, and
\* "[fence]" and "[fence json]" the two fence markers (three backticks,
\* and three backticks followed by json); "json" is what is left of a
\* "[fence json]" marker whose backticks were removed, "\n" a line break.
TextPieces == {"{", "}", "x", "[fence]", "[fence json]"}

Texts == UNION { [1..n -> TextPieces] : n \in 0..MaxTextLen }

\* str.strip().
strip_whitespace(text) ==
    LET kept == { i \in 1..Len(text) : text[i] \notin {"\n", " "} }
    IN IF kept = {} THEN << >>
       ELSE SubSeq(text, CHOOSE i \in kept : \A j \in kept : i <= j,
                         CHOOSE i \in kept : \A j \in kept : j <= i)

RECURSIVE flatten(_)
flatten(parts) ==
    IF parts = << >> THEN << >> ELSE Head(parts) \o flatten(Tail(parts))

\* str.replace(old, ""): every occurrence of old goes, wherever it is; the
\* backticks of a "[fence json]" marker are an occurrence of "[fence]".
replace(text, old) ==
    flatten([i \in 1..Len(text) |->
                IF text[i] = old THEN << >>
                ELSE IF old = "[fence]" /\ text[i] = "[fence json]" THEN << "json" >>
                ELSE << text[i] >>])

\* The cleaning of _parse_response before json.loads.
cleaned_content(content) ==
    LET stripped == strip_whitespace(content)
    IN IF stripped # << >> /\ Head(stripped) = "[fence json]"
       THEN strip_whitespace(replace(replace(stripped, "[fence json]"), "[fence]"))
       ELSE IF stripped # << >> /\ Head(stripped) = "[fence]"
       THEN strip_whitespace(replace(stripped, "[fence]"))
       ELSE stripped

\* json.loads followed by QuizMCQ(**parsed): the text is one quiz object
\* whose question string holds no unescaped quote, brace of the object or
\* line break; the parsed question is the text of that string.
json_loads(text) ==
    LET t == strip_whitespace(text)
    IN IF /\ Len(t) >= 2
          /\ t[1] = "{"
          /\ t[Len(t)] = "}"
          /\ \A i \in 2..(Len(t) - 1) : t[i] \in {"x", "[fence]", "[fence json]", "json"}
       THEN [error |-> FALSE, questions |-> << SubSeq(t, 2, Len(t) - 1) >>]
       ELSE [error |-> TRUE, questions |-> << >>]

\* The ResultType.QUIZ_MCQ branch of LLMService._parse_response on the text
\* received: the quiz, or an error dict.
parse_quiz_content(content) ==
    IF strip_whitespace(content) = << >>
    THEN [error |-> TRUE, questions |-> << >>]
    ELSE json_loads(cleaned_content(content))

\* A text wrapped in a Markdown code fence.
Fenced(text, fence) == << fence, "\n" >> \o text \o << "\n", "[fence]" >>

\* The provider call returns the text, bare or wrapped in a fence, and
\* _parse_response parses what was received.
ParseResponse ==
    /\ ~llm_response.parsed
    /\ \E content \in { llm_response.text,
                         Fenced(llm_response.text, "[fence json]"),
                         Fenced(llm_response.text, "[fence]") } :
          llm_response' = [text |-> llm_response.text,
                           content |-> content,
                           parsed |-> TRUE,
                           result |-> parse_quiz_content(content)]
    /\ UNCHANGED << quizzes, attempts, calls, assets, pc, request, modules_info,
                    idx, result, generated_count, skipped_count >>

\* The parser over its inputs: every text of up to MaxTextLen pieces.
InitParse ==
    /\ quizzes = << >>
    /\ attempts = << >>
    /\ calls = [c \in Calls |-> NoCall]
    /\ assets = << >>
    /\ \E text \in Texts : llm_response = [NoResponse EXCEPT !.text = text]
    /\ pc = "idle"
    /\ request = NoRequest
    /\ modules_info = << >>
    /\ idx = 1
    /\ result = EmptyResult
    /\ generated_count = 0
    /\ skipped_count = 0

SpecParse == InitParse /\ [][ParseResponse]_vars

-----------------------------------------------------------------------------
(* Concurrent requests                                                     *)

\* Two generate_quizzes_for_course requests for the same pair, served by
\* one event loop: a coroutine runs until its next await, so each helper
\* advances from one awaited call to the next (existence check, soft
\* delete, generation call, insert) and the other request may run in
\* between.  The helpers hold no lock and share nothing but the store.
\* Store calls succeed here: the steps differ from those of SingleModule
\* only in that they are taken one awaited call at a time.
ContendedCourse == "c1"
ContendedModule == "m1"

Returned(c) == calls' = [calls EXCEPT ![c] = NoCall]

\* POST /quizzes/generate for the contended pair reaches the helper.
CallStart ==
    /\ pc = "idle"
    /\ \E c \in Calls, overwrite \in BOOLEAN :
          /\ calls[c].pc = "idle"
          /\ calls' = [calls EXCEPT ![c] = [NoCall EXCEPT !.pc = "check",
                                                          !.overwrite = overwrite]]
    /\ UNCHANGED << assets, llm_response, quizzes, attempts, request_vars >>

\* existing_quiz = await get_quizzes_by_course(...), then the branch on it:
\* skip and return, go on to the soft delete, or go on to the generation.
CallCheck ==
    /\ pc = "idle"
    /\ \E c \in Calls :
          /\ calls[c].pc = "check"
          /\ LET existing_quiz == get_quizzes_by_course(quizzes, ContendedCourse,
                                                        ContendedModule, TRUE)
             IN IF existing_quiz # << >> /\ ~calls[c].overwrite
                THEN Returned(c)
                ELSE IF existing_quiz # << >> /\ calls[c].overwrite
                THEN calls' = [calls EXCEPT ![c].pc = "delete"]
                ELSE calls' = [calls EXCEPT ![c].pc = "generate"]
    /\ UNCHANGED << assets, llm_response, quizzes, attempts, request_vars >>

\* await mark_existing_quizzes_as_deleted(...).
CallSoftDelete ==
    /\ pc = "idle"
    /\ \E c \in Calls :
          /\ calls[c].pc = "delete"
          /\ quizzes' = mark_existing_quizzes_as_deleted(quizzes, ContendedCourse,
                             ContendedModule, TRUE).quizzes
          /\ calls' = [calls EXCEPT ![c].pc = "generate"]
    /\ UNCHANGED << assets, llm_response, attempts, request_vars >>

\* response = await llm_service.generate_content(...) within
\* generate_quiz_for_module: an output that fails returns without an
\* insert, a valid one goes on to create_quiz.
CallGenerate ==
    /\ pc = "idle"
    /\ \E c \in Calls, out \in LLMOutputs :
          /\ calls[c].pc = "generate"
          /\ IF CallsInsert(out)
             THEN calls' = [calls EXCEPT ![c].pc = "insert", ![c].out = out]
             ELSE Returned(c)
    /\ UNCHANGED << assets, llm_response, quizzes, attempts, request_vars >>

\* return await create_quiz(db, quiz_create): the insert_one.
CallInsert ==
    /\ pc = "idle"
    /\ \E c \in Calls :
          /\ calls[c].pc = "insert"
          /\ quizzes' = generate_quiz_for_module(quizzes, ContendedCourse,
                             ContendedModule, calls[c].out, TRUE).quizzes
          /\ Returned(c)
    /\ Len(quizzes') + Len(attempts) <= MaxQuizzes
    /\ UNCHANGED << assets, llm_response, attempts, request_vars >>

NextConcurrent ==
    \/ CallStart
    \/ CallCheck
    \/ CallSoftDelete
    \/ CallGenerate
    \/ CallInsert

SpecConcurrent == Init /\ [][NextConcurrent]_vars

-----------------------------------------------------------------------------
(* Properties                                                              *)

\* The current batch of a (course_id, module_code) pair: its quizzes with
\* is_active=true and is_deleted=false.
CurrentQuizzes(qs, course_id, module_code) ==
    { i \in QuizIds(qs) : /\ qs[i].course_id = course_id
                          /\ qs[i].module_code = module_code
                          /\ qs[i].is_active
                          /\ ~qs[i].is_deleted }

\* The module a step of the request being served is about to process, or ""
\* when the step processes none.
ModuleAtStep ==
    IF pc = "single" THEN request.module_code
    ELSE IF pc = "loop" /\ idx <= Len(modules_info) THEN modules_info[idx].code
    ELSE ""

\* C1: in every reachable state each (course_id, module_code) pair has at
\* most one quiz with is_active=true and is_deleted=false.
C1_AtMostOneCurrentQuiz ==
    \A i \in QuizIds(quizzes), j \in QuizIds(quizzes) :
        ( /\ i \in CurrentQuizzes(quizzes, quizzes[j].course_id, quizzes[j].module_code)
          /\ j \in CurrentQuizzes(quizzes, quizzes[j].course_id, quizzes[j].module_code) )
        => i = j

\* C2: a generate call with overwrite=false that processes a module whose
\* pair has a current quiz persisted by an earlier generate call inserts no
\* quiz, soft-deletes no quiz, leaves the store unchanged and appends the
\* module code to skipped_modules.
C2_GenerateTwiceSkips ==
    [][ ( /\ ModuleAtStep # ""
          /\ ~request.overwrite
          /\ CurrentQuizzes(quizzes, request.course_id, ModuleAtStep) # {} )
        => ( /\ quizzes' = quizzes
             /\ result'.skipped_modules = Append(result.skipped_modules, ModuleAtStep)
             /\ result'.generated_quizzes = result.generated_quizzes ) ]_vars

\* C3: a generate call with overwrite=true that processes a module whose
\* pair has a current quiz leaves exactly one active, non-deleted quiz for
\* the pair, a new one, and every prior current quiz of the pair ends with
\* is_deleted=true and is_active=false.
C3_OverwriteReplaces ==
    [][ ( /\ ModuleAtStep # ""
          /\ request.overwrite
          /\ CurrentQuizzes(quizzes, request.course_id, ModuleAtStep) # {} )
        => ( /\ Cardinality(CurrentQuizzes(quizzes', request.course_id, ModuleAtStep)) = 1
             /\ CurrentQuizzes(quizzes', request.course_id, ModuleAtStep)
                    = { Len(quizzes) + 1 }
             /\ \A i \in CurrentQuizzes(quizzes, request.course_id, ModuleAtStep) :
                    quizzes'[i].is_deleted /\ ~quizzes'[i].is_active ) ]_vars

\* C4: every quiz of the store has total_questions equal to the length of
\* its questions list.
C4_TotalQuestions ==
    \A i \in QuizIds(quizzes) :
        quizzes[i].total_questions = Len(quizzes[i].questions)

\* A quiz whose questions were replaced by a list of another length than
\* that of a quiz created with it: two quizzes of different lengths, one of
\* them no longer current.
C4_Witness ==
    \E i \in QuizIds(quizzes), j \in QuizIds(quizzes) :
        /\ Len(quizzes[i].questions) = 2
        /\ Len(quizzes[j].questions) = 1
        /\ quizzes[i].total_questions = 2
        /\ ~quizzes[j].is_active

\* C5: every question of every persisted quiz has
\* 0 <= correct_answer < len(options), whichever way it was stored.
C5_CorrectAnswerInRange ==
    \A i \in QuizIds(quizzes) :
        \A k \in 1..Len(quizzes[i].questions) :
            /\ 0 <= quizzes[i].questions[k].correct_answer
            /\ quizzes[i].questions[k].correct_answer < quizzes[i].questions[k].options

\* A generation request has returned a quiz it persisted from model output.
C5_Witness ==
    /\ pc = "done"
    /\ Len(result.generated_quizzes) > 0
    /\ \A k \in 1..Len(result.generated_quizzes) :
           /\ result.generated_quizzes[k] \in QuizIds(quizzes)
           /\ Len(quizzes[result.generated_quizzes[k]].questions) > 0

\* No get_quizzes_by_course query, for any course and with or without a
\* module filter, returns a quiz with is_deleted=true.
DeletedNeverListed ==
    \A c \in CourseIds, m \in RequestModuleCodes :
        LET listed == get_quizzes_by_course(quizzes, c, m, TRUE)
        IN \A k \in 1..Len(listed) : ~quizzes[listed[k]].is_deleted

\* C6: a quiz with is_deleted=true keeps is_deleted=true under every later
\* operation, its document stays in the store (no document is ever
\* removed), and no get_quizzes_by_course query returns it.
C6_SoftDeletePermanent ==
    /\ []DeletedNeverListed
    /\ [][ /\ Len(quizzes') >= Len(quizzes)
           /\ \A i \in QuizIds(quizzes) :
                  quizzes[i].is_deleted =>
                      /\ quizzes'[i].is_deleted
                      /\ quizzes'[i].course_id = quizzes[i].course_id
                      /\ quizzes'[i].module_code = quizzes[i].module_code ]_vars

\* A soft-deleted quiz that a later update_quiz has touched (its is_active
\* flag was set again) next to a quiz that is still listed.
C6_Witness ==
    \E i \in QuizIds(quizzes), j \in QuizIds(quizzes) :
        /\ quizzes[i].is_deleted
        /\ quizzes[i].is_active
        /\ Len(get_quizzes_by_course(quizzes, quizzes[i].course_id, "", TRUE)) > 0
        /\ ~quizzes[j].is_deleted

\* C7: in every reachable state a quiz with is_deleted=true has
\* is_active=false.
C7_DeletedIsInactive ==
    \A i \in QuizIds(quizzes) : quizzes[i].is_deleted => ~quizzes[i].is_active

\* Generation for a module fails: the provider errors, the output does not
\* parse, the output is invalid, or the insert fails.
GenerationFails(out, insertOk) ==
    \/ out.kind = "provider_error"
    \/ out.kind \in {"empty", "not_json"}
    \/ out.kind = "json" /\ ~QuizCreate(out.title_len, out.questions)
    \/ ~insertOk

\* In a state of the all-modules loop, whatever the store and the
\* generation capability answer: when generation for the module is
\* attempted (the module has a code, is not skipped, and the soft delete of
\* the overwrite path did not fail) and fails, the iteration raises
\* nothing, appends an error naming the module and changes nothing else of
\* the result.
FailedGenerationIsRecorded ==
    (pc = "loop" /\ idx <= Len(modules_info) /\ modules_info[idx].code # "")
    => \A readOk \in BOOLEAN, writeOk \in BOOLEAN, out \in LLMOutputs,
          insertOk \in BOOLEAN :
          LET existing == get_quizzes_by_course(quizzes, request.course_id,
                                                modules_info[idx].code, readOk)
              r == generate_quizzes_for_all_modules_body(
                       quizzes, request, modules_info[idx], result,
                       generated_count, skipped_count,
                       readOk, writeOk, out, insertOk)
          IN ( /\ GenerationFails(out, insertOk)
               /\ existing # << >> => (request.overwrite /\ writeOk) )
             => ( /\ ~r.raised
                  /\ r.result.errors
                        = Append(result.errors, FailedToGenerate(modules_info[idx].code))
                  /\ r.result.generated_quizzes = result.generated_quizzes
                  /\ r.result.skipped_modules = result.skipped_modules
                  /\ r.result.success = result.success )

\* A step of the all-modules loop that appends the error of a failed
\* generation to errors.
RecordsFailedGeneration ==
    /\ pc = "loop"
    /\ idx <= Len(modules_info)
    /\ Len(result'.errors) = Len(result.errors) + 1
    /\ result'.errors[Len(result'.errors)] = FailedToGenerate(modules_info[idx].code)

\* C8: in an all-modules batch a failed generation for one module (provider
\* error, unparseable or invalid output, failed insert) appends an error
\* naming that module, and the loop goes on to the next module in course
\* order: the failure does not end the batch.
C8_GenerationFailureContinues ==
    /\ []FailedGenerationIsRecorded
    /\ [][ RecordsFailedGeneration
           => ( /\ pc' = "loop"
                /\ idx' = idx + 1
                /\ modules_info' = modules_info
                /\ request' = request ) ]_vars

\* An all-modules batch has returned in which generation failed for the
\* first module and a quiz was generated for the last one.
C8_Witness ==
    /\ pc = "done"
    /\ result.errors = << FailedToGenerate(CourseModules[1].code) >>
    /\ Len(result.generated_quizzes) = 1
    /\ quizzes[result.generated_quizzes[1]].module_code = CourseModules[3].code

\* C9: a document-store write failure while one module of a batch is
\* processed does not keep the remaining modules from being attempted:
\* an all-modules batch returns only after its loop has gone through
\* every module.
C9_WriteFailureKeepsBatchGoing ==
    [][ (pc = "loop" /\ pc' = "done") => idx > Len(modules_info) ]_vars

\* C10: for every result returned after module resolution succeeded, in
\* single-module and in all-modules mode, success is true exactly when
\* generated_quizzes is non-empty, or skipped_modules is non-empty and
\* errors is empty.
C10_SuccessAggregate ==
    [][ (pc \in {"single", "loop"} /\ pc' = "done")
        => ( result'.success
             <=> ( \/ Len(result'.generated_quizzes) > 0
                   \/ ( /\ Len(result'.skipped_modules) > 0
                        /\ Len(result'.errors) = 0 ) ) ) ]_vars

\* The module_info a step of the request being served is about to process.
ModuleInfoAtStep ==
    IF pc = "single" THEN modules_info[1] ELSE modules_info[idx]

\* C11: in an all-modules batch with overwrite=false, an iteration over a
\* module with a non-empty code in which nothing fails (no error is
\* recorded, no exception ends the batch) skips the module exactly when its
\* pair has a current quiz, leaving the store unchanged, and otherwise
\* inserts exactly one quiz, carrying that module's code, and appends it to
\* generated_quizzes; errors stays as it was.
C11_BatchSkipsExactlyCurrent ==
    [][ ( /\ pc = "loop"
          /\ ModuleAtStep # ""
          /\ ~request.overwrite
          /\ pc' = "loop"
          /\ result'.errors = result.errors )
        => IF CurrentQuizzes(quizzes, request.course_id, ModuleAtStep) # {}
           THEN /\ quizzes' = quizzes
                /\ result'.skipped_modules
                       = Append(result.skipped_modules, ModuleAtStep)
                /\ result'.generated_quizzes = result.generated_quizzes
           ELSE /\ Len(quizzes') = Len(quizzes) + 1
                /\ quizzes'[Len(quizzes')].module_code = ModuleAtStep
                /\ result'.generated_quizzes
                       = Append(result.generated_quizzes, Len(quizzes'))
                /\ result'.skipped_modules = result.skipped_modules ]_vars

\* The request names a course that exists and, when it names a module, a
\* module of that course.
Resolvable(course_id, module_code) ==
    /\ find_course(course_id).found
    /\ module_code # "" =>
           \E k \in 1..Len(find_course(course_id).modules) :
               find_course(course_id).modules[k].code = module_code

\* C12: a generate request goes on to process modules only when its course
\* exists and its module_code, if given, is among the course's modules;
\* otherwise it returns at once with success=false, a non-empty message and
\* empty generated_quizzes, skipped_modules and errors, and the quiz store
\* is unchanged.
C12_NotFoundChangesNothing ==
    [][ /\ (pc = "idle" /\ pc' \in {"single", "loop"})
            => Resolvable(request'.course_id, request'.module_code)
        /\ (pc = "idle" /\ pc' = "done")
            => ( /\ ~result'.success
                 /\ result'.message # ""
                 /\ result'.generated_quizzes = << >>
                 /\ result'.skipped_modules = << >>
                 /\ result'.errors = << >>
                 /\ quizzes' = quizzes ) ]_vars

\* A request was answered "not found" while the store holds a current quiz
\* and a soft-deleted one.
C12_Witness ==
    /\ pc = "done"
    /\ result.message = "Course or module not found"
    /\ \E i \in QuizIds(quizzes), j \in QuizIds(quizzes) :
           /\ quizzes[i].is_deleted
           /\ quizzes[j].is_active /\ ~quizzes[j].is_deleted

\* C13: a step that processes a module whose extracted content is empty,
\* and is not a skip, persists no quiz and adds an entry to errors.
C13_EmptyContentIsFailure ==
    [][ ( /\ ModuleAtStep # ""
          /\ ModuleInfoAtStep.assets_content = ""
          /\ result'.skipped_modules = result.skipped_modules )
        => ( /\ Len(quizzes') = Len(quizzes)
             /\ Len(result'.errors) = Len(result.errors) + 1 ) ]_vars

\* C20: the soft delete of the overwrite path, run for the pair of the
\* module being processed, leaves every quiz that was not a current quiz
\* of that pair (is_active=true and is_deleted=false) as it was.
C20_BatchSoftDeleteFrame ==
    [][ ( /\ ModuleAtStep # ""
          /\ request.overwrite )
        => \A i \in QuizIds(quizzes) :
               i \notin CurrentQuizzes(quizzes, request.course_id, ModuleAtStep)
                   => quizzes'[i] = quizzes[i] ]_vars

\* A step has inserted an attempt: it is the last document of attempts'.
AttemptInserted == Len(attempts') = Len(attempts) + 1

NewAttempt == attempts'[Len(attempts')]

\* C14: create_quiz_attempt persists no attempt when the quiz id is absent
\* from the store or refers to a quiz with is_deleted=true.
C14_NoAttemptOnMissingOrDeleted ==
    [][ AttemptInserted
        => ( /\ NewAttempt.quiz_id \in QuizIds(quizzes)
             /\ ~quizzes[NewAttempt.quiz_id].is_deleted ) ]_vars

\* The number of submitted answers whose question_index is within range and
\* whose selected_answer equals the correct_answer of that question.
CorrectByQuestionIndex(questions, answers) ==
    Cardinality({ i \in 1..Len(answers) :
                    /\ answers[i].question_index < Len(questions)
                    /\ answers[i].selected_answer
                         = questions[answers[i].question_index + 1].correct_answer })

\* C15: the score of an inserted attempt equals the number of submitted
\* answers whose question_index is within range and whose selected_answer
\* equals quiz.questions[question_index].correct_answer.
C15_ScoreByQuestionIndex ==
    [][ AttemptInserted
        => NewAttempt.score
             = CorrectByQuestionIndex(quizzes[NewAttempt.quiz_id].questions,
                                      NewAttempt.answers) ]_vars

\* C16: taking the answers with an out-of-range question_index out of the
\* submitted list gives the same score, and the score is at most the number
\* of questions some submitted answer refers to (a question without an
\* answer contributes 0).
C16_OutOfRangeAndOmitted ==
    [][ AttemptInserted
        => LET questions == quizzes[NewAttempt.quiz_id].questions
               in_range == SelectSeq(NewAttempt.answers,
                               LAMBDA a : a.question_index < Len(questions))
               answered == { q \in 0..(Len(questions) - 1) :
                               \E i \in 1..Len(NewAttempt.answers) :
                                   NewAttempt.answers[i].question_index = q }
           IN /\ NewAttempt.score = calculate_score(questions, in_range)
              /\ NewAttempt.score <= Cardinality(answered) ]_vars

\* Every stored attempt has 0 <= score <= max_score.
ScoreWithinMaxScore ==
    \A i \in 1..Len(attempts) :
        /\ 0 <= attempts[i].score
        /\ attempts[i].score <= attempts[i].max_score

\* C17: every persisted attempt has 0 <= score <= max_score, and the
\* max_score of an attempt is the number of questions its quiz has when the
\* attempt is scored.
C17_ScoreBounds ==
    /\ []ScoreWithinMaxScore
    /\ [][ AttemptInserted
           => NewAttempt.max_score
                = Len(quizzes[NewAttempt.quiz_id].questions) ]_vars

\* A stored attempt with more answers than its quiz had questions, all of
\* them for the same question_index, that reached the full score.
C17_Witness ==
    \E i \in 1..Len(attempts) :
        /\ Len(attempts[i].answers) > attempts[i].max_score
        /\ \A k \in 1..Len(attempts[i].answers) :
               attempts[i].answers[k].question_index = 0
        /\ attempts[i].score = attempts[i].max_score
        /\ attempts[i].max_score > 1

\* C18: every persisted attempt has percentage equal to the integer floor
\* of score * 100 / max_score when max_score > 0 and to 0 when
\* max_score = 0, so 0 <= percentage <= 100.
C18_PercentageIsFloor ==
    \A i \in 1..Len(attempts) :
        /\ attempts[i].percentage
             = IF attempts[i].max_score > 0
               THEN (attempts[i].score * 100) \div attempts[i].max_score
               ELSE 0
        /\ 0 <= attempts[i].percentage
        /\ attempts[i].percentage <= 100

\* Every stored attempt has is_completed=true.
AttemptsCompleted ==
    \A i \in 1..Len(attempts) : attempts[i].is_completed

\* C19: a step inserts at most one attempt, and the attempt it inserts is
\* scored (score, max_score and percentage as computed from the quiz at
\* that time) and has is_completed=true; no state holds an attempt with
\* is_completed=false; no step modifies or removes a stored attempt.
C19_AttemptsImmutable ==
    /\ []AttemptsCompleted
    /\ [][ /\ Len(attempts') \in { Len(attempts), Len(attempts) + 1 }
           /\ \A i \in 1..Len(attempts) : attempts'[i] = attempts[i]
           /\ AttemptInserted
              => LET questions == quizzes[NewAttempt.quiz_id].questions
                 IN /\ NewAttempt.is_completed
                    /\ NewAttempt.score = calculate_score(questions, NewAttempt.answers)
                    /\ NewAttempt.max_score = Len(questions)
                    /\ NewAttempt.percentage
                         = calculate_percentage(NewAttempt.score, NewAttempt.max_score)
                    /\ quizzes' = quizzes ]_vars

\* A stored attempt whose quiz has since been given another list of
\* questions and been soft-deleted.
C19_Witness ==
    \E i \in 1..Len(attempts) :
        /\ attempts[i].score > 0
        /\ quizzes[attempts[i].quiz_id].is_deleted
        /\ Len(quizzes[attempts[i].quiz_id].questions) # attempts[i].max_score

\* The frame of one update_quiz call on the store qs with outcome r: a
\* failed write and an id no document has leave every quiz as it is, the
\* latter answered as not found; otherwise the patched quiz takes the
\* fields of the patch, total_questions follows a patched questions list,
\* and nothing else changes, in that quiz or in any other.
UpdateFrame(qs, quiz_id, patch, r) ==
    IF r.raised
    THEN r.quizzes = qs
    ELSE IF quiz_id \notin QuizIds(qs)
    THEN ~r.found /\ r.quizzes = qs
    ELSE /\ r.found
         /\ Len(r.quizzes) = Len(qs)
         /\ \A i \in QuizIds(qs) : i # quiz_id => r.quizzes[i] = qs[i]
         /\ r.quizzes[quiz_id].course_id = qs[quiz_id].course_id
         /\ r.quizzes[quiz_id].module_code = qs[quiz_id].module_code
         /\ r.quizzes[quiz_id].is_deleted = qs[quiz_id].is_deleted
         /\ r.quizzes[quiz_id].questions =
                IF patch.has_questions THEN patch.questions ELSE qs[quiz_id].questions
         /\ r.quizzes[quiz_id].total_questions =
                IF patch.has_questions THEN Len(patch.questions)
                ELSE qs[quiz_id].total_questions
         /\ r.quizzes[quiz_id].is_active =
                IF patch.has_is_active THEN patch.is_active ELSE qs[quiz_id].is_active

C22_RequestReturns ==
    (pc \in {"single", "loop"}) ~> (pc = "done")

\* C23: when generate_quizzes_for_course requests for one (course_id,
\* module_code) pair interleave at their awaited calls, with any
\* combination of overwrite flags, the store holds at most one active,
\* non-deleted quiz for the pair once the requests have returned.
C23_ConcurrentAtMostOne ==
    (\A c \in Calls : calls[c].pc = "idle") =>
        Cardinality(CurrentQuizzes(quizzes, ContendedCourse, ContendedModule)) <= 1

\* A step of a helper on the overwrite path whose soft delete succeeded
\* (the store changed) and whose generation or insert failed (no quiz was
\* added).
SoftDeletedWithoutInsert ==
    /\ ModuleAtStep # ""
    /\ request.overwrite
    /\ quizzes' # quizzes
    /\ Len(quizzes') = Len(quizzes)

\* C24: when, on the overwrite path, generation or the insert fails after
\* the soft delete of the prior batch succeeded, the module is left with
\* no active, non-deleted quiz, every prior quiz of the batch has
\* is_deleted=true, and the result records an error naming the module; no
\* later step sets is_deleted of a quiz back to false.
C24_FailedOverwriteLeavesNoQuiz ==
    [][ /\ SoftDeletedWithoutInsert =>
            /\ CurrentQuizzes(quizzes', request.course_id, ModuleAtStep) = {}
            /\ \A i \in CurrentQuizzes(quizzes, request.course_id, ModuleAtStep) :
                   quizzes'[i].is_deleted
            /\ result'.errors =
                   Append(result.errors, FailedToGenerate(ModuleAtStep))
        /\ \A i \in QuizIds(quizzes) :
               quizzes[i].is_deleted =>
                   i \in QuizIds(quizzes') /\ quizzes'[i].is_deleted ]_vars

\* An overwrite request for m1 has returned with an error for m1 and no
\* generated quiz; the store holds the prior quiz of m1, soft-deleted, and
\* no current quiz for m1.
C24_Witness ==
    /\ pc = "done"
    /\ ~result.success
    /\ result.errors = << FailedToGenerate("m1") >>
    /\ result.generated_quizzes = << >>
    /\ Len(quizzes) = 1
    /\ quizzes[1].module_code = "m1"
    /\ quizzes[1].is_deleted
    /\ ~quizzes[1].is_active
    /\ CurrentQuizzes(quizzes, "c1", "m1") = {}

\* The generated text fails JSON parsing (it is empty or no JSON) or fails
\* validation (no questions, a question with fewer than 2 or more than 6
\* options, a correct_answer out of range).
FailsParsingOrValidation(out) ==
    \/ out.kind \in {"empty", "not_json"}
    \/ /\ out.kind = "json"
       /\ out.title_len = 10
       /\ ~QuizCreate(out.title_len, out.questions)

\* C25: for every generated text that fails parsing or validation, the
\* generation capability answers with a failure (success is false) whose
\* result carries the raw text, and generate_quiz_for_module raises
\* nothing and persists no quiz, whatever the store holds.
C25_InvalidOutputIsFailure ==
    \A out \in LLMOutputs :
        FailsParsingOrValidation(out) =>
            /\ ~generate_content(out).success
            /\ "raw_content" \in DOMAIN generate_content(out).result
            /\ generate_content(out).result.raw_content = out
            /\ \A insertOk \in BOOLEAN :
                   LET quiz == generate_quiz_for_module(quizzes, "c1", "m1",
                                                       out, insertOk)
                   IN ~quiz.raised /\ quiz.quizzes = quizzes

\* The fallback order of the fields of an asset type.
FallbackOrder(asset_type) ==
    CASE asset_type = "text" -> << "content" >>
      [] asset_type \in {"video", "audio"} -> << "transcript", "description", "content" >>
      [] asset_type = "pdf" -> << "extracted_text", "summary", "content" >>
      [] asset_type = "image" -> << "description", "alt_text", "content" >>
      [] OTHER -> << "content" >>

\* The first non-empty field of the asset in its fallback order, or "".
FirstNonEmpty(asset) ==
    LET given == SelectSeq(FallbackOrder(asset.type), LAMBDA f : asset[f] # << >>)
    IN IF given = << >> THEN << >> ELSE asset[Head(given)]

\* The module resolved from the one asset of db.assets has a block for it.
HasBlock ==
    /\ modules_info # << >>
    /\ modules_info[1].assets_content # << >>

\* The content of that block: what stands between the banners, after the
\* header line.
BlockContent ==
    LET text == modules_info[1].assets_content
        block == SubSeq(text, Len(Banner) + 1, Len(text) - Len(Banner))
    IN SubSeq(block, Len(asset_header(assets[1])) + 2, Len(block))

IsPrefix(p, text) ==
    /\ Len(p) <= Len(text)
    /\ SubSeq(text, 1, Len(p)) = p

\* A title-based fallback string: a label followed by the title.
StartsWithTitleFallback(text, asset) ==
    /\ Len(text) >= 2
    /\ \E k \in 1..2 : /\ Len(text) >= k + Len(asset.title)
                       /\ SubSeq(text, k + 1, k + Len(asset.title)) = asset.title
                       /\ \A j \in 1..k : text[j] \notin
                              { Str("\nDescription: "), Str("Description: "),
                                Str("\nDifficulty: "), Str("Difficulty: ") }

\* The duration piece of a content, as the minutes it shows; {} when the
\* content has none.
DurationShown(text) ==
    { text[k + 1].n : k \in { j \in 1..(Len(text) - 2) :
                                /\ text[j] = Str(" (Duration: ")
                                /\ text[j + 2] = Str(" minutes)") } }

\* C26 as stated: the content of every extracted block starts with the
\* first non-empty field of the fallback order of the asset's type, else
\* with the title-based fallback string, for every type; the block of a
\* video or audio asset that has a duration carries
\* "(Duration: floor(duration/60) minutes)".
C26_PrimaryContentEveryType ==
    HasBlock =>
        LET asset == assets[1]
        IN /\ IF FirstNonEmpty(asset) # << >>
              THEN IsPrefix(FirstNonEmpty(asset), BlockContent)
              ELSE StartsWithTitleFallback(BlockContent, asset)
           /\ (asset.type \in {"video", "audio"} /\ asset.has_duration)
                  => DurationShown(BlockContent) = { asset.duration \div 60 }

\* C26, amended: the content of every extracted block starts with the
\* first non-empty field of the fallback order of the asset's type, else,
\* for every type but text, with the title-based fallback string (a text
\* asset has no fallback); the block of a video or audio asset whose
\* duration is given and is not 0 carries
\* "(Duration: floor(duration/60) minutes)" right after that, and no other
\* block shows a duration.
C26_PrimaryContent ==
    HasBlock =>
        LET asset == assets[1]
            first == FirstNonEmpty(asset)
            primary == IF first # << >> THEN Len(first)
                       ELSE IF asset.type = "quiz" THEN 2 + Len(asset.title)
                       ELSE IF asset.type # "text" THEN 1 + Len(asset.title)
                       ELSE 0
        IN /\ first # << >> => IsPrefix(first, BlockContent)
           /\ (first = << >> /\ asset.type # "text")
                  => StartsWithTitleFallback(BlockContent, asset)
           /\ IF /\ asset.type \in {"video", "audio"}
                 /\ asset.has_duration
                 /\ asset.duration # 0
              THEN /\ DurationShown(BlockContent) = { asset.duration \div 60 }
                   /\ Len(BlockContent) >= primary + 3
                   /\ BlockContent[primary + 1] = Str(" (Duration: ")
              ELSE DurationShown(BlockContent) = {}

\* The block of a video asset with a transcript and a duration of 125
\* seconds has been extracted.
C26_Witness ==
    /\ HasBlock
    /\ assets[1].type = "video"
    /\ assets[1].transcript # << >>
    /\ assets[1].has_duration
    /\ assets[1].duration = 125
    /\ IsPrefix(assets[1].transcript, BlockContent)
    /\ DurationShown(BlockContent) = { 2 }

\* C27: for every generation output text, the text wrapped in a leading
\* ```json (or ```) fence and a trailing ``` fence parses to the same
\* question set, or to a failure alike, as the text unwrapped.
C27_FenceRoundTrip ==
    llm_response.parsed =>
        llm_response.result = parse_quiz_content(llm_response.text)

\* How many times the result res accounts for the module code: entries of
\* skipped_modules equal to it, quizzes of generated_quizzes that carry it,
\* and errors entries that name it.
TimesAccounted(res, qs, module_code) ==
    Cardinality({ k \in 1..Len(res.skipped_modules) :
                     res.skipped_modules[k] = module_code })
    + Cardinality({ k \in 1..Len(res.generated_quizzes) :
                       qs[res.generated_quizzes[k]].module_code = module_code })
    + Cardinality({ k \in 1..Len(res.errors) :
                       res.errors[k] = FailedToGenerate(module_code) })

\* C28: when an all-modules batch returns after its loop went through every
\* module, each module of the course, those with a missing or empty code
\* included, is accounted for exactly once in the result: in
\* skipped_modules, by a quiz of generated_quizzes, or by an errors entry.
C28_EveryModuleAccounted ==
    [][ (pc = "loop" /\ idx > Len(modules_info) /\ pc' = "done")
        => \A k \in 1..Len(modules_info) :
               TimesAccounted(result', quizzes', modules_info[k].code) = 1 ]_vars

\* C29: when a batch request returns and no other request ran meanwhile,
\* every quiz listed in generated_quizzes of its result is active and not
\* deleted in the store, also with overwrite set over a course two of
\* whose modules carry the same code.
C29_GeneratedStillCurrent ==
    [][ (pc = "loop" /\ pc' = "done")
        => \A k \in 1..Len(result'.generated_quizzes) :
               /\ quizzes'[result'.generated_quizzes[k]].is_active
               /\ ~quizzes'[result'.generated_quizzes[k]].is_deleted ]_vars

\* C30: a step of a generate call with overwrite=false on a module whose
\* pair already has a current quiz creates no further current quiz for the
\* pair, whether the read of its existence check succeeds or raises: a
\* failed read is not taken for "no current quiz exists".
C30_FailedReadCreatesNoQuiz ==
    [][ ( /\ ModuleAtStep # ""
          /\ ~request.overwrite
          /\ CurrentQuizzes(quizzes, request.course_id, ModuleAtStep) # {} )
        => ( /\ Len(quizzes') = Len(quizzes)
             /\ CurrentQuizzes(quizzes', request.course_id, ModuleAtStep)
                    = CurrentQuizzes(quizzes, request.course_id, ModuleAtStep) ) ]_vars

====
